---- MODULE Spec2Model ----
(***************************************************************************)
(* A model of presidio_config.py: the compilation of the deny-lists        *)
(* (get_unique_names, generate_location_list, get_email_recognizer), the   *)
(* recognizers that run() registers, and the analysis of a text with them. *)
(*                                                                         *)
(* A Python str is a sequence of one-character strings.                    *)
(***************************************************************************)
EXTENDS Integers, Sequences, FiniteSets, TLC

VARIABLES
    pc,            \* the step the program is at
    name_list,     \* get_unique_names: the raw names
    remove_list,   \* get_unique_names: the names to remove
    unique_names,  \* get_unique_names: the list returned
    country_names, \* generate_location_list: the four raw lists
    state_names,
    city_names,
    airport_names,
    location_list, \* generate_location_list: the list returned
    email_domains, \* get_email_recognizer: the raw domains
    email_list,    \* get_email_recognizer: the deny-list built from them
    builds,        \* the compiled lists of the compilations made so far
    zip_present,   \* data/names.zip exists and can be read
    zip_files,     \* the .txt files inside data/names.zip
    ssa_folder,    \* the .txt files of data/ssa_names
    csv_present,   \* the folder data/hispanic_names exists
    csv_files,     \* the .csv files of data/hispanic_names
    error,         \* the exception that ended the program, or "none"
    recognizers,   \* the recognizers run() has created
    registry,      \* analyzer.registry: the custom recognizers added to it
    text,          \* the text that is analysed
    results,       \* what analyzer.analyze returned
    analyzer_results \* what anonymizer.anonymize was handed

namesVars == <<name_list, remove_list, unique_names>>

locVars == <<country_names, state_names, city_names, airport_names, location_list>>

emailVars == <<email_domains, email_list>>

envVars == <<zip_present, zip_files, ssa_folder, csv_present, csv_files, error>>

detectVars == <<recognizers, registry, text, results, analyzer_results>>

runVars == <<envVars, detectVars>>

vars == <<pc, namesVars, locVars, emailVars, builds, runVars>>

(***************************************************************************)
(* Characters                                                              *)
(***************************************************************************)
UpperLetters == <<"A","B","C","D","E","F","G","H","I","J","K","L","M",
                  "N","O","P","Q","R","S","T","U","V","W","X","Y","Z">>

LowerLetters == <<"a","b","c","d","e","f","g","h","i","j","k","l","m",
                  "n","o","p","q","r","s","t","u","v","w","x","y","z">>

DigitChars == <<"0","1","2","3","4","5","6","7","8","9">>

Range(s) == {s[i] : i \in 1..Len(s)}

IndexOf(s, c) == CHOOSE i \in 1..Len(s) : s[i] = c

IsUpper(c) == c \in Range(UpperLetters)

IsLower(c) == c \in Range(LowerLetters)

IsDigit(c) == c \in Range(DigitChars)

IsCased(c) == IsUpper(c) \/ IsLower(c)

\* str.isspace() for the characters of the model: the space and the tab
IsSpace(c) == c \in {" ", "\t"}

\* the regular expression class \w: letters, digits and the underscore
IsWord(c) == IsCased(c) \/ IsDigit(c) \/ c = "_"

ToUpper(c) == IF IsLower(c) THEN UpperLetters[IndexOf(LowerLetters, c)] ELSE c

ToLower(c) == IF IsUpper(c) THEN LowerLetters[IndexOf(UpperLetters, c)] ELSE c

\* the code point of a character, which is what Python orders strings by
Ord(c) ==
    IF IsUpper(c) THEN 64 + IndexOf(UpperLetters, c)
    ELSE IF IsLower(c) THEN 96 + IndexOf(LowerLetters, c)
    ELSE IF IsDigit(c) THEN 47 + IndexOf(DigitChars, c)
    ELSE CASE c = "\t" -> 9
           [] c = " "  -> 32
           [] c = "'"  -> 39
           [] c = "("  -> 40
           [] c = ")"  -> 41
           [] c = ","  -> 44
           [] c = "-"  -> 45
           [] c = "."  -> 46
           [] c = "@"  -> 64
           [] c = "_"  -> 95

(***************************************************************************)
(* Strings                                                                 *)
(***************************************************************************)
\* s < t in Python: the first differing character decides, a proper prefix
\* is smaller
RECURSIVE StrLess(_, _)
StrLess(s, t) ==
    IF t = <<>> THEN FALSE
    ELSE IF s = <<>> THEN TRUE
    ELSE IF s[1] = t[1] THEN StrLess(Tail(s), Tail(t))
    ELSE Ord(s[1]) < Ord(t[1])

\* sorted(list(set(...))): the elements of S in ascending order
RECURSIVE SortedList(_)
SortedList(S) ==
    IF S = {} THEN <<>>
    ELSE LET m == CHOOSE x \in S : \A y \in S : y = x \/ StrLess(x, y)
         IN  <<m>> \o SortedList(S \ {m})

\* str.title(): a cased character is upper-cased when the character before
\* it is not cased, and lower-cased when it is
Title(s) ==
    [i \in 1..Len(s) |->
        IF i > 1 /\ IsCased(s[i - 1]) THEN ToLower(s[i]) ELSE ToUpper(s[i])]

\* str.split(sep) for a one-character sep: every occurrence of sep ends a
\* piece, so two adjacent separators enclose an empty piece
RECURSIVE SplitOn(_, _)
SplitOn(s, sep) ==
    IF \A i \in 1..Len(s) : s[i] # sep THEN <<s>>
    ELSE LET k == CHOOSE i \in 1..Len(s) :
                      s[i] = sep /\ \A j \in 1..(i - 1) : s[j] # sep
         IN  <<SubSeq(s, 1, k - 1)>> \o SplitOn(SubSeq(s, k + 1, Len(s)), sep)

\* the concatenation of a list of lists
RECURSIVE Flatten(_)
Flatten(ss) == IF ss = <<>> THEN <<>> ELSE Head(ss) \o Flatten(Tail(ss))

\* [x for x in s if x not in drop]
RECURSIVE Without(_, _)
Without(s, drop) ==
    IF s = <<>> THEN <<>>
    ELSE IF Head(s) \in Range(drop) THEN Without(Tail(s), drop)
    ELSE <<Head(s)>> \o Without(Tail(s), drop)

(***************************************************************************)
(* get_unique_names                                                        *)
(***************************************************************************)
\* [word.title() for name in name_list for word in name.split(" ")]
TitledWords(names) ==
    LET words == Flatten([i \in 1..Len(names) |-> SplitOn(names[i], " ")])
    IN  [i \in 1..Len(words) |-> Title(words[i])]

\* get_unique_names with the remove_list applied to the words as they come,
\* before they are title-cased
get_unique_names_filter_raw(names, remove) ==
    LET words == Flatten([i \in 1..Len(names) |-> SplitOn(names[i], " ")])
        kept  == Without(words, remove)
    IN  SortedList({Title(kept[i]) : i \in 1..Len(kept)})

get_unique_names(names, remove) ==
    Without(SortedList(Range(TitledWords(names))), remove)

(***************************************************************************)
(* generate_location_list                                                  *)
(***************************************************************************)
\* re.sub(r"\(.*?\)", "", s): the leftmost "(" that a ")" follows, up to the
\* first ")" after it, is deleted, and the scan goes on behind it
RECURSIVE RemoveParens(_)
RemoveParens(s) ==
    LET opens == {i \in 1..Len(s) :
                     s[i] = "(" /\ \E j \in (i + 1)..Len(s) : s[j] = ")"}
    IN  IF opens = {} THEN s
        ELSE LET i == CHOOSE x \in opens : \A y \in opens : x <= y
                 j == CHOOSE x \in (i + 1)..Len(s) :
                          s[x] = ")" /\ \A y \in (i + 1)..(x - 1) : s[y] # ")"
             IN  SubSeq(s, 1, i - 1) \o RemoveParens(SubSeq(s, j + 1, Len(s)))

\* str.split(): the maximal runs of non-whitespace characters
RECURSIVE SplitWhitespace(_)
SplitWhitespace(s) ==
    IF \A i \in 1..Len(s) : IsSpace(s[i]) THEN <<>>
    ELSE LET b == CHOOSE i \in 1..Len(s) :
                      ~IsSpace(s[i]) /\ \A j \in 1..(i - 1) : IsSpace(s[j])
             e == CHOOSE i \in b..Len(s) :
                      /\ \A j \in b..i : ~IsSpace(s[j])
                      /\ (i = Len(s) \/ IsSpace(s[i + 1]))
         IN  <<SubSeq(s, b, e)>> \o SplitWhitespace(SubSeq(s, e + 1, Len(s)))

\* sep.join(words)
RECURSIVE Join(_, _)
Join(words, sep) ==
    IF words = <<>> THEN <<>>
    ELSE IF Len(words) = 1 THEN words[1]
    ELSE words[1] \o sep \o Join(Tail(words), sep)

\* " ".join(re.sub(r"\(.*?\)", "", item).split()).title()
NormalizeLocation(item) == Title(Join(SplitWhitespace(RemoveParens(item)), <<" ">>))

\* generate_location_list splitting every location into its words, the way
\* get_unique_names splits names
generate_location_list_split(countries, states, cities, airports) ==
    LET raw == SortedList(Range(countries \o states \o cities \o airports))
    IN  SortedList(Range(TitledWords([i \in 1..Len(raw) |-> NormalizeLocation(raw[i])])))

\* the raw terms are sorted and deduplicated first and normalized afterwards
generate_location_list(countries, states, cities, airports) ==
    LET raw == SortedList(Range(countries \o states \o cities \o airports))
    IN  [i \in 1..Len(raw) |-> NormalizeLocation(raw[i])]

(***************************************************************************)
(* The deny-list of get_email_recognizer                                   *)
(***************************************************************************)
\* the sequences that hold every element of S once
RECURSIVE Orders(_)
Orders(S) ==
    IF S = {} THEN {<<>>}
    ELSE UNION {{<<x>> \o r : r \in Orders(S \ {x})} : x \in S}

\* set([domain.split(".")[0].title() for domain in email_domains])
DomainLabels(domains) ==
    {Title(SplitOn(domains[i], ".")[1]) : i \in 1..Len(domains)}

\* list(set(...)): the labels in the iteration order of the set, which is
\* that of the hashes of the strings (randomized per process) and of the
\* insertions; the list is not sorted, so any order can come out
EmailLists(domains) == Orders(DomainLabels(domains))

(***************************************************************************)
(* The recognizers.  A PatternRecognizer scans the text with re.finditer   *)
(* under the flags DOTALL, MULTILINE and IGNORECASE; the text of the model *)
(* holds no line break, so ^ and $ are the two ends of the text.  Offsets  *)
(* are Python's: the span [start, end) covers text[start + 1 .. end] here. *)
(***************************************************************************)
\* score of a deny-list match (PatternRecognizer's deny_list_score), of the
\* NUMBER pattern and of the single character pattern, in tenths
DenyListScore == 10

NumberConfidence == 5

SingleCharConfidence == 8

\* two characters are equal when the letter case is ignored
SameIgnoringCase(c, d) == ToLower(c) = ToLower(d)

\* the term stands in the text at offset i, compared ignoring case
TermAt(txt, term, i) ==
    /\ i + Len(term) <= Len(txt)
    /\ \A k \in 1..Len(term) : SameIgnoringCase(txt[i + k], term[k])

\* a deny-list regex with no condition on the character before the term
LeftFlank_any(txt, i) == TRUE

\* (?:^|(?<=\W)) at offset i
LeftFlank(txt, i) == i = 0 \/ ~IsWord(txt[i])

\* a deny-list regex that wants a space, not any non-word character, behind
\* the term
RightFlank_space(txt, j) == j = Len(txt) \/ txt[j + 1] = " "

\* (?:(?=\W)|$) at offset j
RightFlank(txt, j) == j = Len(txt) \/ ~IsWord(txt[j + 1])

\* the deny-list regex (?:^|(?<=\W))(t1|t2|...)(?:(?=\W)|$) tried at offset
\* i: the end of the match, or -1.  The alternatives are tried in the order
\* of the list and the first one that the right flank accepts is taken; an
\* empty match is not allowed where must_advance holds
DenyListMatchAt(txt, terms, i, must_advance) ==
    LET fits == {k \in 1..Len(terms) :
                    /\ TermAt(txt, terms[k], i)
                    /\ RightFlank(txt, i + Len(terms[k]))
                    /\ (must_advance => terms[k] # <<>>)}
    IN  IF ~LeftFlank(txt, i) \/ fits = {} THEN -1
        ELSE i + Len(terms[CHOOSE k \in fits : \A m \in fits : k <= m])

\* \b at offset i: exactly one of the characters around i is a word character
\* a pattern without its \b: every offset passes
WordBoundary_any(txt, i) == i \in 0..Len(txt)

\* \b at offset i: a word character on exactly one side
WordBoundary(txt, i) ==
    LET before == i >= 1 /\ IsWord(txt[i])
        after  == i < Len(txt) /\ IsWord(txt[i + 1])
    IN  before # after

\* \b\d+\b tried at offset i: the end of the match, or -1.  \d+ takes the
\* longest run of digits and gives characters back until \b holds
NumberMatchAt(txt, i) ==
    LET ends == {j \in (i + 1)..Len(txt) :
                    /\ \A k \in (i + 1)..j : IsDigit(txt[k])
                    /\ WordBoundary(txt, j)}
    IN  IF ~WordBoundary(txt, i) \/ ends = {} THEN -1
        ELSE CHOOSE j \in ends : \A m \in ends : m <= j

\* the class [A-Z], which leaves out neither A nor I
InSingleCharClass_all(c) == IsCased(c)

\* [B-HJ-Z] under IGNORECASE
InSingleCharClass(c) == IsCased(c) /\ ToUpper(c) \notin {"A", "I"}

\* (?<= )([B-HJ-Z])(?= ) tried at offset i: the end of the match, or -1
SingleCharMatchAt(txt, i) ==
    IF /\ i >= 1
       /\ txt[i] = " "
       /\ i + 2 <= Len(txt)
       /\ InSingleCharClass(txt[i + 1])
       /\ txt[i + 2] = " "
    THEN i + 1
    ELSE -1

\* one attempt of the recognizer's regex at offset i
MatchAt(rec, txt, i, must_advance) ==
    CASE rec.kind = "deny_list"   -> DenyListMatchAt(txt, rec.deny_list, i, must_advance)
      [] rec.kind = "number"      -> NumberMatchAt(txt, i)
      [] rec.kind = "single_char" -> SingleCharMatchAt(txt, i)

\* re.finditer from offset i on: the matches from left to right, none
\* overlapping another; after an empty match the scan stays at the offset
\* and must advance.  An empty match is skipped by the recognizer
RECURSIVE FindIter(_, _, _, _)
FindIter(rec, txt, i, must_advance) ==
    IF i > Len(txt) THEN <<>>
    ELSE LET e == MatchAt(rec, txt, i, must_advance)
         IN  IF e = -1 THEN FindIter(rec, txt, i + 1, FALSE)
             ELSE IF e = i THEN FindIter(rec, txt, i, TRUE)
             ELSE <<[entity_type |-> rec.supported_entity,
                     start |-> i, end |-> e, score |-> rec.score]>>
                  \o FindIter(rec, txt, e, FALSE)

\* PatternRecognizer.analyze(text)
RecognizerResults(rec, txt) == FindIter(rec, txt, 0, FALSE)

(***************************************************************************)
(* The recognizers that run() creates                                      *)
(***************************************************************************)
get_name_recognizer(names) ==
    [supported_entity |-> "PERSON", kind |-> "deny_list",
     deny_list |-> names, score |-> DenyListScore]

get_number_recognizer(confidence) ==
    [supported_entity |-> "NUMBER", kind |-> "number",
     deny_list |-> <<>>, score |-> confidence]

get_single_char_recognizer ==
    [supported_entity |-> "SINGLE_CHAR_EXCLUDE_AI", kind |-> "single_char",
     deny_list |-> <<>>, score |-> SingleCharConfidence]

get_datetime_recognizer(months, weeks, times) ==
    [supported_entity |-> "DATE_TIME", kind |-> "deny_list",
     deny_list |-> months \o weeks \o times, score |-> DenyListScore]

get_location_recognizer(locations) ==
    [supported_entity |-> "LOCATION", kind |-> "deny_list",
     deny_list |-> locations, score |-> DenyListScore]

\* the recognizers get_email_recognizer can return: one for every order the
\* deny-list can come out of list(set(...)) in
get_email_recognizer(domains) ==
    {[supported_entity |-> "EMAIL_DOMAIN", kind |-> "deny_list",
      deny_list |-> labels, score |-> DenyListScore] : labels \in EmailLists(domains)}

(***************************************************************************)
(* analyzer.analyze(text): every recognizer of the registry scans the text *)
(* on its own; the results are then put in the order of descending score,  *)
(* ascending start and descending length, and a result that lies inside a  *)
(* result of the same entity type kept before it is dropped.  Results that *)
(* agree in score, start and length come in either order (they pass        *)
(* through a set).                                                         *)
(***************************************************************************)
RawResults(reg, txt) ==
    Flatten([i \in 1..Len(reg) |-> RecognizerResults(reg[i], txt)])

\* results ordered by their start alone
KeyBefore_start(a, b) == a.start < b.start

\* the sort key (-score, start, -(end - start)) of a comes before that of b
KeyBefore(a, b) ==
    \/ a.score > b.score
    \/ a.score = b.score /\ a.start < b.start
    \/ a.score = b.score /\ a.start = b.start /\ a.end - a.start > b.end - b.start

RECURSIVE KeyOrders(_)
KeyOrders(S) ==
    IF S = {} THEN {<<>>}
    ELSE UNION {{<<x>> \o r : r \in KeyOrders(S \ {x})} :
                   x \in {y \in S : \A z \in S : ~KeyBefore(z, y)}}

ContainedIn(a, b) == a.start >= b.start /\ a.end <= b.end

RECURSIVE KeepUncontained(_, _)
KeepUncontained(kept, rest) ==
    IF rest = <<>> THEN kept
    ELSE LET r == Head(rest)
             drop == \E k \in 1..Len(kept) :
                         ContainedIn(r, kept[k]) /\ r.entity_type = kept[k].entity_type
         IN  KeepUncontained(IF drop THEN kept ELSE Append(kept, r), Tail(rest))

\* the result lists analyze can return
AnalyzeResults(reg, txt) ==
    {KeepUncontained(<<>>, o) : o \in KeyOrders(Range(RawResults(reg, txt)))}

(***************************************************************************)
(* get_unique_names applied to every name_list and remove_list of the      *)
(* bounded input sets                                                      *)
(***************************************************************************)
MaxNames == 2

\* raw names as the corpora hold them: lower case, several words, a tab,
\* two adjacent spaces, a leading space
NamePool ==
    { <<"d","o","n">>,
      <<"A","n","n"," ","D","o","n">>,
      <<"b","y","e"," ","b","y","e">>,
      <<"m","a","\t","l","i">>,
      <<"a","l"," "," ","e","d">>,
      <<" ","j","o">> }

RemovePool ==
    { <<"D","o","n">>, <<"B","y","e"," ","B","y","e">>, <<"A","l">>, <<"j","o">> }

SeqsUpTo(S, n) == UNION {[1..k -> S] : k \in 0..n}

NameLists == SeqsUpTo(NamePool, MaxNames)

RemoveLists == {SortedList(R) : R \in SUBSET RemovePool}

NamesIdle == name_list = <<>> /\ remove_list = <<>> /\ unique_names = <<>>

EnvIdle ==
    /\ zip_present = TRUE
    /\ zip_files = <<>>
    /\ ssa_folder = <<>>
    /\ csv_present = TRUE
    /\ csv_files = <<>>
    /\ error = "none"

DetectIdle ==
    /\ recognizers = <<>>
    /\ registry = <<>>
    /\ text = <<>>
    /\ results = <<>>
    /\ analyzer_results = <<>>

RunIdle == EnvIdle /\ DetectIdle

EmailIdle == email_domains = <<>> /\ email_list = <<>>

LocIdle ==
    /\ country_names = <<>>
    /\ state_names = <<>>
    /\ city_names = <<>>
    /\ airport_names = <<>>
    /\ location_list = <<>>

InitNames ==
    /\ pc = "names_start"
    /\ name_list \in NameLists
    /\ remove_list \in RemoveLists
    /\ unique_names = <<>>
    /\ LocIdle
    /\ EmailIdle
    /\ builds = <<>>
    /\ RunIdle

CallGetUniqueNames ==
    /\ pc = "names_start"
    /\ unique_names' = get_unique_names(name_list, remove_list)
    /\ pc' = "names_done"
    /\ UNCHANGED <<name_list, remove_list, locVars, emailVars, builds, runVars>>

NextNames == CallGetUniqueNames

SpecNames == InitNames /\ [][NextNames]_vars

\* C1: no element of the list returned by get_unique_names(name_list,
\* remove_list) is a member of remove_list.
ExclusionInvariant ==
    pc = "names_done" =>
        \A i \in 1..Len(unique_names) : unique_names[i] \notin Range(remove_list)

\* a call whose remove_list names a word of name_list: the word was removed
\* and another word was kept
ExclusionWitness ==
    /\ pc = "names_done"
    /\ \E r \in Range(remove_list) : r \in Range(TitledWords(name_list))
    /\ unique_names # <<>>

(***************************************************************************)
(* generate_location_list applied to the raw lists of the bounded input    *)
(* sets                                                                    *)
(***************************************************************************)
MaxLocs == 2

\* raw locations: with a parenthetical qualifier, only a qualifier, in two
\* letter cases, with a run of whitespace
CountryPool ==
    { <<"C","o","c","o","s"," ","(","K","e","e","l","i","n","g",")"," ","I","s","l","a","n","d","s">>,
      <<"C","o","c","o","s"," ","I","s","l","a","n","d","s">>,
      <<"C","o","c","o","s"," ","B","a","y">>,
      <<"(","K","e","e","l","i","n","g",")">>,
      <<"C","h","a","d">> }

StateLists == { <<>>, << <<"N","e","w"," ","Y","o","r","k">> >> }

CityLists == { <<>>, << <<"N","e","w"," ","Y","o","r","k">> >>, << <<"n","e","w"," "," ","y","o","r","k">> >>, << <<"Y","o","r","k">> >> }

AirportLists == { <<>>, << <<"P","a","r","i","s">> >> }

InitLoc ==
    /\ pc = "loc_start"
    /\ country_names \in SeqsUpTo(CountryPool, MaxLocs)
    /\ state_names \in StateLists
    /\ city_names \in CityLists
    /\ airport_names \in AirportLists
    /\ location_list = <<>>
    /\ NamesIdle
    /\ EmailIdle
    /\ builds = <<>>
    /\ RunIdle

CallGenerateLocationList ==
    /\ pc = "loc_start"
    /\ location_list' =
           generate_location_list(country_names, state_names, city_names, airport_names)
    /\ pc' = "loc_done"
    /\ UNCHANGED <<country_names, state_names, city_names, airport_names,
                   namesVars, emailVars, builds, runVars>>

NextLoc == CallGenerateLocationList

SpecLoc == InitLoc /\ [][NextLoc]_vars

\* C8: the list returned by generate_location_list is sorted ascending and
\* holds no entry twice.
LocationListSortedUnique ==
    pc = "loc_done" =>
        \A i, j \in 1..Len(location_list) :
            i < j => StrLess(location_list[i], location_list[j])

\* C9: the list returned by generate_location_list holds no empty string.
LocationListNoEmpty ==
    pc = "loc_done" =>
        \A i \in 1..Len(location_list) : location_list[i] # <<>>

(***************************************************************************)
(* Names and locations compiled side by side                               *)
(***************************************************************************)
\* remove_list of run()
RunRemoveList ==
    << <<"A">>,
       <<"J","o","b">>,
       <<"Y","o","u">>,
       <<"W","e","s","t">>,
       <<"D","o","n">>,
       <<"Y","o","u","n","g">>,
       <<"M","a">>,
       <<"S","a","i","d">>,
       <<"B","y","e"," ","B","y","e">>,
       <<"O","k","a","y">>,
       <<"P","e","r","f","e","c","t">> >>

JohnSmith == <<"J","o","h","n"," ","S","m","i","t","h">>

JaneSmith == <<"J","a","n","e"," ","S","m","i","t","h">>

NewYork == <<"N","e","w"," ","Y","o","r","k">>

TokNamePool == { JohnSmith, JaneSmith, <<"j","a","n","e"," ","s","m","i","t","h">> }

TokLocPool == { NewYork, <<"Y","o","r","k">>, <<"n","e","w">>, <<"C","o","c","o","s"," ","(","K","e","e","l","i","n","g",")"," ","I","s","l","a","n","d","s">> }

InitTok ==
    /\ pc = "tok_start"
    /\ name_list \in SeqsUpTo(TokNamePool, MaxNames)
    /\ remove_list \in {<<>>, RunRemoveList}
    /\ unique_names = <<>>
    /\ country_names = <<>>
    /\ state_names = <<>>
    /\ city_names \in SeqsUpTo(TokLocPool, MaxLocs)
    /\ airport_names = <<>>
    /\ location_list = <<>>
    /\ EmailIdle
    /\ builds = <<>>
    /\ RunIdle

TokGetUniqueNames ==
    /\ pc = "tok_start"
    /\ unique_names' = get_unique_names(name_list, remove_list)
    /\ pc' = "tok_names_done"
    /\ UNCHANGED <<name_list, remove_list, locVars, emailVars, builds, runVars>>

TokGenerateLocationList ==
    /\ pc = "tok_names_done"
    /\ location_list' =
           generate_location_list(country_names, state_names, city_names, airport_names)
    /\ pc' = "tok_done"
    /\ UNCHANGED <<country_names, state_names, city_names, airport_names,
                   namesVars, emailVars, builds, runVars>>

NextTok == TokGetUniqueNames \/ TokGenerateLocationList

SpecTok == InitTok /\ [][NextTok]_vars

\* the words of s: its maximal runs of characters other than the space
SpaceWords(s) ==
    {SubSeq(s, ab[1], ab[2]) : ab \in
        {x \in (1..Len(s)) \X (1..Len(s)) :
            /\ x[1] <= x[2]
            /\ \A k \in x[1]..x[2] : s[k] # " "
            /\ (x[1] = 1 \/ s[x[1] - 1] = " ")
            /\ (x[2] = Len(s) \/ s[x[2] + 1] = " ")}}

RawLocations == Range(country_names \o state_names \o city_names \o airport_names)

\* C2: generate_location_list keeps a location of several words as one entry
\* and adds none of its words as an entry of its own, while get_unique_names
\* makes every word of every name an entry of its own: "John Smith" and
\* "Jane Smith" give "Jane", "John", "Smith".
TokenizationAsymmetry ==
    pc = "tok_done" =>
        /\ Len(location_list) = Cardinality(RawLocations)
        /\ NewYork \in RawLocations => NewYork \in Range(location_list)
        /\ \A w \in {<<"N","e","w">>, <<"Y","o","r","k">>} :
               w \in Range(location_list) => \E t \in RawLocations : Title(t) = w
        /\ (name_list = <<JohnSmith, JaneSmith>> /\ remove_list = <<>>) =>
               unique_names = << <<"J","a","n","e">>, <<"J","o","h","n">>, <<"S","m","i","t","h">> >>
        /\ \A i \in 1..Len(unique_names) : " " \notin Range(unique_names[i])
        /\ \A i \in 1..Len(name_list) : \A w \in SpaceWords(name_list[i]) :
               Title(w) \in Range(unique_names) \cup Range(remove_list)

\* "John Smith" and "Jane Smith" compiled to three entries next to "New York"
\* compiled to one
TokenizationWitness ==
    /\ pc = "tok_done"
    /\ name_list = <<JohnSmith, JaneSmith>>
    /\ unique_names = << <<"J","a","n","e">>, <<"J","o","h","n">>, <<"S","m","i","t","h">> >>
    /\ city_names = <<NewYork>>
    /\ location_list = <<NewYork>>

(***************************************************************************)
(* The same raw terms compiled twice, supplied in any order                *)
(***************************************************************************)
\* the lists that hold the elements of s in another order
Reorderings(s) ==
    {[i \in 1..Len(s) |-> s[p[i]]] : p \in Orders(1..Len(s))}

TwiceNameLists ==
    { <<JohnSmith, JaneSmith>>, << <<"d","o","n">>, JohnSmith >>, << <<"A","n","n"," ","D","o","n">> >> }

TwiceCityLists ==
    { <<NewYork, <<"P","a","r","i","s">>>>, << <<"C","o","c","o","s"," ","(","K","e","e","l","i","n","g",")"," ","I","s","l","a","n","d","s">>, <<"C","o","c","o","s"," ","I","s","l","a","n","d","s">> >>, << <<"n","e","w"," "," ","y","o","r","k">> >> }

TwiceDomainLists ==
    { << <<"a","o","l",".","c","o","m">>, <<"a","t","t",".","n","e","t">> >>,
      << <<"h","o","t","m","a","i","l",".","c","o","m">>, <<"m","a","c",".","c","o","m">>, <<"m","s","n",".","c","o","m">> >>,
      << <<"h","o","t","m","a","i","l",".","c","o","m">> >> }

InitTwice ==
    /\ pc = "twice_names"
    /\ name_list \in TwiceNameLists
    /\ remove_list = RunRemoveList
    /\ unique_names = <<>>
    /\ country_names = <<>>
    /\ state_names = <<>>
    /\ city_names \in TwiceCityLists
    /\ airport_names = <<>>
    /\ location_list = <<>>
    /\ email_domains \in TwiceDomainLists
    /\ email_list = <<>>
    /\ builds = <<>>
    /\ RunIdle

TwiceGetUniqueNames ==
    /\ pc = "twice_names"
    /\ \E supplied \in Reorderings(name_list) :
           unique_names' = get_unique_names(supplied, remove_list)
    /\ pc' = "twice_locations"
    /\ UNCHANGED <<name_list, remove_list, locVars, emailVars, builds, runVars>>

TwiceGenerateLocationList ==
    /\ pc = "twice_locations"
    /\ \E supplied \in Reorderings(city_names) :
           location_list' =
               generate_location_list(country_names, state_names, supplied, airport_names)
    /\ pc' = "twice_email"
    /\ UNCHANGED <<country_names, state_names, city_names, airport_names,
                   namesVars, emailVars, builds, runVars>>

TwiceGetEmailRecognizer ==
    /\ pc = "twice_email"
    /\ \E supplied \in Reorderings(email_domains) :
           \E built \in EmailLists(supplied) :
               /\ email_list' = built
               /\ builds' = Append(builds, [PERSON       |-> unique_names,
                                            LOCATION     |-> location_list,
                                            EMAIL_DOMAIN |-> built])
    /\ pc' = IF Len(builds) = 0 THEN "twice_names" ELSE "twice_done"
    /\ UNCHANGED <<email_domains, namesVars, locVars, runVars>>

NextTwice ==
    TwiceGetUniqueNames \/ TwiceGenerateLocationList \/ TwiceGetEmailRecognizer

SpecTwice == InitTwice /\ [][NextTwice]_vars

\* C7: compiling the same raw input twice yields identical compiled lists,
\* element for element and in the same order, for PERSON, LOCATION and
\* EMAIL_DOMAIN, whatever the order the raw terms were supplied in.
CompilationDeterministic ==
    pc = "twice_done" => builds[1] = builds[2]

(***************************************************************************)
(* process_name_txt_files and process_name_csv_files.  A file is a record  *)
(* [readable, rows]; a row is [Name, Number], where Number is what pandas  *)
(* parsed the frequency field to: [type |-> "int", val |-> n], a missing   *)
(* field [type |-> "nan"], or text that is no number [type |-> "str"].     *)
(***************************************************************************)
\* the default top_n of both functions
TopN == 1000

Parsed(n) == [type |-> "int", val |-> n]

\* data[data["Number"] > top_n]["Name"]: NaN > top_n is False; a column
\* that holds text is a column of str, which cannot be compared with an int
RECURSIVE RowsAbove(_, _)
RowsAbove(rows, top_n) ==
    IF rows = <<>> THEN <<>>
    ELSE LET r == Head(rows)
         IN  (IF r.Number.type = "int" /\ r.Number.val > top_n
              THEN <<r.Name>> ELSE <<>>) \o RowsAbove(Tail(rows), top_n)

\* the exception pandas raises on the file, or "none"
FileError(file) ==
    IF ~file.readable THEN "PermissionError"
    ELSE IF \E i \in 1..Len(file.rows) : file.rows[i].Number.type = "str"
    THEN "TypeError"
    ELSE "none"

\* the loop over the files of the folder: the names appended so far and the
\* exception that ended the loop, if one did
RECURSIVE process_name_files(_, _, _)
process_name_files(files, names, top_n) ==
    IF files = <<>> THEN [name_list |-> names, raised |-> "none"]
    ELSE IF FileError(Head(files)) # "none"
    THEN [name_list |-> names, raised |-> FileError(Head(files))]
    ELSE process_name_files(Tail(files), names \o RowsAbove(Head(files).rows, top_n), top_n)

\* what unidecode writes for one character: an ASCII character stays, an
\* accented letter of the hispanic names becomes its base letter
Transliteration(c) ==
    CASE c = "á" -> <<"a">>
      [] c = "é" -> <<"e">>
      [] c = "í" -> <<"i">>
      [] c = "ñ" -> <<"n">>
      [] c = "ó" -> <<"o">>
      [] c = "ú" -> <<"u">>
      [] OTHER   -> <<c>>

\* unidecode(item)
Unidecode(item) == Flatten([i \in 1..Len(item) |-> Transliteration(item[i])])

process_name_txt_files(files, names, top_n) == process_name_files(files, names, top_n)

process_name_csv_files(files, names, top_n) ==
    LET r == process_name_files(files, <<>>, top_n)
    IN  [name_list |-> names \o [i \in 1..Len(r.name_list) |-> Unidecode(r.name_list[i])],
         raised    |-> r.raised]

(***************************************************************************)
(* run() and the main program                                              *)
(***************************************************************************)
AdditionalNames ==
    << <<"M","a","r","y","e","l","l","e","n">>,
       <<"C","h","a","n","t","e","l","l","e">>,
       <<"K","i","r","k","l","a","n","d">>,
       <<"J","o","h","n","s","t","o","n">> >>

\* entries of the tables of run(): the locations and domains that the texts
\* of the model can touch, and the whole of the month, week and time lists
RunCountryNames == << <<"C","a","n","a","d","a">>, <<"C","h","a","d">>, <<"J","o","r","d","a","n">> >>

RunStateNames == << <<"N","e","w"," ","Y","o","r","k">>, <<"W","a","s","h","i","n","g","t","o","n">> >>

RunCityNames == << <<"N","e","w"," ","Y","o","r","k">>, <<"V","a","n","c","o","u","v","e","r">>, <<"W","a","s","h","i","n","g","t","o","n">> >>

RunAirportNames == << <<"P","a","r","i","s">> >>

MonthList ==
    << <<"J","a","n","u","a","r","y">>,
       <<"F","e","b","r","u","a","r","y">>,
       <<"M","a","r","c","h">>,
       <<"A","p","r","i","l">>,
       <<"J","u","n","e">>,
       <<"J","u","l","y">>,
       <<"A","u","g","u","s","t">>,
       <<"S","e","p","t","e","m","b","e","r">>,
       <<"O","c","t","o","b","e","r">>,
       <<"N","o","v","e","m","b","e","r">>,
       <<"D","e","c","e","m","b","e","r">> >>

WeekList ==
    << <<"M","o","n","d","a","y">>,
       <<"T","u","e","s","d","a","y">>,
       <<"W","e","d","n","e","s","d","a","y">>,
       <<"T","h","u","r","s","d","a","y">>,
       <<"F","r","i","d","a","y">>,
       <<"S","a","t","u","r","d","a","y">>,
       <<"S","u","n","d","a","y">> >>

TimeList == << <<"N","o","o","n">>, <<"M","i","d","n","i","g","h","t">> >>

RunEmailDomains == << <<"g","m","a","i","l",".","c","o","m">>, <<"h","o","t","m","a","i","l",".","c","o","m">>, <<"m","a","c",".","c","o","m">> >>

\* the text of the main program
MainText ==
    << "H","e","l","l","o",","," ","I","'","m"," ","B","o","b"," ","a",
       "n","d"," ","I"," ","l","i","v","e"," ","i","n"," ","V","a","n",
       "c","o","u","v","e","r",","," ","W","A"," ","9","0","1","0","1",
       " ","a","n","d"," ","m","y"," ","e","m","a","i","l"," ","i","s",
       " ","b","o","b","b","y","@","h","o","t","m","a","i","l",".","c",
       "o","m" >>

\* rows of the SSA files and of the hispanic-name files
SsaBob == [Name |-> <<"B","o","b">>, Number |-> Parsed(2000)]

SsaBobbyRare == [Name |-> <<"B","o","b","b","y">>, Number |-> Parsed(1000)]

SsaBobby == [Name |-> <<"B","o","b","b","y">>, Number |-> Parsed(3000)]

SsaChad == [Name |-> <<"C","h","a","d">>, Number |-> Parsed(5000)]

SsaDon == [Name |-> <<"D","o","n">>, Number |-> Parsed(1500)]

SsaMissing == [Name |-> <<"A","n","n">>, Number |-> [type |-> "nan"]]

SsaText == [Name |-> <<"A","n","n">>, Number |-> [type |-> "str"]]

CsvJose == [Name |-> <<"J","o","s","é">>, Number |-> Parsed(1500)]

CsvMaria == [Name |-> <<"M","a","r","í","a">>, Number |-> Parsed(999)]

File(rows) == [readable |-> TRUE, rows |-> rows]

Unreadable == [readable |-> FALSE, rows |-> <<>>]

SsaCorpora ==
    { <<>>,
      <<File(<<SsaBob, SsaBobbyRare>>)>>,
      <<File(<<SsaBob, SsaBobby>>), File(<<SsaChad, SsaDon>>)>>,
      <<File(<<SsaMissing, SsaBob>>), File(<<SsaChad>>)>>,
      <<File(<<SsaBob, SsaText>>), File(<<SsaChad>>)>>,
      <<Unreadable, File(<<SsaBob>>)>> }

CsvCorpora ==
    { <<>>, <<File(<<CsvJose, CsvMaria>>)>>, <<Unreadable>> }

TextPool ==
    { MainText,
      <<"C","h","a","d"," ","5">>,
      <<"9","0","1","0","1"," ","V","a","n","c","o","u","v","e","r">>,
      <<"s","e","e"," ","B"," ","i","n"," ","C","h","a","d">>,
      <<"n","e","w"," ","y","o","r","k">> }

InitRun ==
    /\ pc = "extract_zip"
    /\ zip_present \in BOOLEAN
    /\ zip_files \in SsaCorpora
    /\ ssa_folder = <<>>
    /\ csv_present \in BOOLEAN
    /\ csv_files \in (IF csv_present THEN CsvCorpora ELSE {<<>>})
    /\ error = "none"
    /\ name_list = <<>>
    /\ remove_list = RunRemoveList
    /\ unique_names = <<>>
    /\ country_names = RunCountryNames
    /\ state_names = RunStateNames
    /\ city_names = RunCityNames
    /\ airport_names = RunAirportNames
    /\ location_list = <<>>
    /\ email_domains = RunEmailDomains
    /\ email_list = <<>>
    /\ builds = <<>>
    /\ recognizers = <<>>
    /\ registry = <<>>
    /\ text \in TextPool
    /\ results = <<>>
    /\ analyzer_results = <<>>

\* with zipfile.ZipFile(path_to_zip, "r") as zip_ref: zip_ref.extractall(...)
ExtractZip ==
    /\ pc = "extract_zip"
    /\ IF zip_present
       THEN /\ ssa_folder' = zip_files
            /\ pc' = "process_txt"
            /\ error' = error
       ELSE /\ error' = "FileNotFoundError"
            /\ pc' = "raised"
            /\ ssa_folder' = ssa_folder
    /\ UNCHANGED <<zip_present, zip_files, csv_present, csv_files, namesVars,
                   locVars, emailVars, builds, detectVars>>

ProcessNameTxtFiles ==
    /\ pc = "process_txt"
    /\ LET r == process_name_txt_files(ssa_folder, name_list, TopN)
       IN  /\ name_list' = r.name_list
           /\ error' = r.raised
           /\ pc' = IF r.raised = "none" THEN "process_csv" ELSE "raised"
    /\ UNCHANGED <<zip_present, zip_files, ssa_folder, csv_present, csv_files,
                   remove_list, unique_names, locVars, emailVars, builds, detectVars>>

ProcessNameCsvFiles ==
    /\ pc = "process_csv"
    /\ LET r == process_name_csv_files(csv_files, name_list, TopN)
       IN  /\ name_list' = r.name_list
           /\ error' = r.raised
           /\ pc' = IF r.raised = "none" THEN "add_names" ELSE "raised"
    /\ UNCHANGED <<zip_present, zip_files, ssa_folder, csv_present, csv_files,
                   remove_list, unique_names, locVars, emailVars, builds, detectVars>>

AddAdditionalNames ==
    /\ pc = "add_names"
    /\ name_list' = name_list \o AdditionalNames
    /\ pc' = "unique_names"
    /\ UNCHANGED <<remove_list, unique_names, locVars, emailVars, builds, runVars>>

RunGetUniqueNames ==
    /\ pc = "unique_names"
    /\ unique_names' = get_unique_names(name_list, remove_list)
    /\ pc' = "location_list"
    /\ UNCHANGED <<name_list, remove_list, locVars, emailVars, builds, runVars>>

RunGenerateLocationList ==
    /\ pc = "location_list"
    /\ location_list' =
           generate_location_list(country_names, state_names, city_names, airport_names)
    /\ pc' = "create_recognizers"
    /\ UNCHANGED <<country_names, state_names, city_names, airport_names,
                   namesVars, emailVars, builds, runVars>>

\* the six get_..._recognizer calls
CreateRecognizers ==
    /\ pc = "create_recognizers"
    /\ \E email_recognizer \in get_email_recognizer(email_domains) :
           /\ email_list' = email_recognizer.deny_list
           /\ recognizers' =
                  [name_recognizer        |-> get_name_recognizer(unique_names),
                   location_recognizer    |-> get_location_recognizer(location_list),
                   datetime_recognizer    |-> get_datetime_recognizer(MonthList, WeekList, TimeList),
                   number_recognizer      |-> get_number_recognizer(NumberConfidence),
                   single_char_recognizer |-> get_single_char_recognizer,
                   email_recognizer       |-> email_recognizer]
    /\ pc' = "analyzer_engine"
    /\ UNCHANGED <<email_domains, namesVars, locVars, builds, envVars,
                   registry, text, results, analyzer_results>>

\* analyzer = AnalyzerEngine(); the recognizers it comes with are no part of
\* the model
CreateAnalyzerEngine ==
    /\ pc = "analyzer_engine"
    /\ registry' = <<>>
    /\ pc' = "add_recognizer"
    /\ UNCHANGED <<namesVars, locVars, emailVars, builds, envVars,
                   recognizers, text, results, analyzer_results>>

\* the recognizers registered in the order run() creates them
RegistrationOrder_by_creation(recs) ==
    <<recs.name_recognizer, recs.location_recognizer, recs.datetime_recognizer,
      recs.number_recognizer, recs.single_char_recognizer, recs.email_recognizer>>

\* the order of the six analyzer.registry.add_recognizer calls
RegistrationOrder(recs) ==
    <<recs.name_recognizer, recs.number_recognizer, recs.single_char_recognizer,
      recs.datetime_recognizer, recs.location_recognizer, recs.email_recognizer>>

\* the next analyzer.registry.add_recognizer call
AddRecognizer ==
    /\ pc = "add_recognizer"
    /\ registry' = Append(registry, RegistrationOrder(recognizers)[Len(registry) + 1])
    /\ pc' = IF Len(registry') = Len(RegistrationOrder(recognizers))
             THEN "anonymizer_engine" ELSE "add_recognizer"
    /\ UNCHANGED <<namesVars, locVars, emailVars, builds, envVars,
                   recognizers, text, results, analyzer_results>>

\* anonymizer = AnonymizerEngine(); return analyzer, anonymizer
ReturnEngines ==
    /\ pc = "anonymizer_engine"
    /\ pc' = "analyze"
    /\ UNCHANGED <<namesVars, locVars, emailVars, builds, runVars>>

\* results = analyzer.analyze(text=text, language="en")
Analyze ==
    /\ pc = "analyze"
    /\ results' \in AnalyzeResults(registry, text)
    /\ pc' = "anonymize"
    /\ UNCHANGED <<namesVars, locVars, emailVars, builds, envVars,
                   recognizers, registry, text, analyzer_results>>

\* anonymizer.anonymize(text=text, analyzer_results=results)
Anonymize ==
    /\ pc = "anonymize"
    /\ analyzer_results' = results
    /\ pc' = "done"
    /\ UNCHANGED <<namesVars, locVars, emailVars, builds, envVars,
                   recognizers, registry, text, results>>

NextRun ==
    \/ ExtractZip
    \/ ProcessNameTxtFiles
    \/ ProcessNameCsvFiles
    \/ AddAdditionalNames
    \/ RunGetUniqueNames
    \/ RunGenerateLocationList
    \/ CreateRecognizers
    \/ CreateAnalyzerEngine
    \/ AddRecognizer
    \/ ReturnEngines
    \/ Analyze
    \/ Anonymize

SpecRun == InitRun /\ [][NextRun]_vars

(***************************************************************************)
(* Claims about run() and the main program                                 *)
(***************************************************************************)
\* C10: a missing or unreadable corpus source is never fatal: run() still
\* completes, and the PERSON deny-list holds at least the additional names.
MissingSourceNeverFatal ==
    /\ error \notin {"FileNotFoundError", "PermissionError"}
    /\ (pc \in {"analyze", "anonymize", "done"} =>
            Range(AdditionalNames) \subseteq Range(unique_names))

Overlap(a, b) == a.start < b.end /\ b.start < a.end

Span(label, from, to, sc) ==
    [entity_type |-> label, start |-> from, end |-> to, score |-> sc]

\* the four spans of the main text
MainPerson == Span("PERSON", 11, 14, DenyListScore)

MainLocation == Span("LOCATION", 29, 38, DenyListScore)

MainNumber == Span("NUMBER", 43, 48, NumberConfidence)

MainEmailDomain == Span("EMAIL_DOMAIN", 71, 78, DenyListScore)

InList(word, list) == \E i \in 1..Len(list) : list[i] = word

MaxSingleTokens == 5

\* the texts made of at most n pieces of the pool
Texts(pool, n) == {Flatten(ts) : ts \in SeqsUpTo(pool, n)}

SingleTokens == { <<"A">>, <<"B">>, <<"C">>, <<"I">>, <<"b">>, <<" ">>, <<",">> }

DetectCommon ==
    /\ pc = "analyze"
    /\ results = <<>>
    /\ analyzer_results = <<>>
    /\ recognizers = <<>>
    /\ EnvIdle
    /\ NamesIdle
    /\ LocIdle
    /\ EmailIdle
    /\ builds = <<>>

InitSingle ==
    /\ text \in Texts(SingleTokens, MaxSingleTokens)
    /\ registry = <<get_single_char_recognizer>>
    /\ DetectCommon

SpecSingle == InitSingle /\ [][Analyze]_vars

Analysed == pc \in {"anonymize", "done"}

\* the character at offset i of the text is inside a span of the results
Matched(i) == \E k \in 1..Len(results) : results[k].start <= i /\ i < results[k].end

\* the character at offset i is a token of its own: a space or an end of the
\* text on either side
StandaloneToken(i) ==
    /\ (i = 0 \/ text[i] = " ")
    /\ (i + 1 = Len(text) \/ text[i + 2] = " ")

\* C5 as stated: in "A B C" exactly "B" and "C" are matched; every single
\* upper-case letter other than A and I that is a token of its own is
\* matched, also as the first or the last token; "A" and "I" never are.
SingleCharRule ==
    Analysed =>
        \A i \in 0..(Len(text) - 1) :
            Matched(i) <=>
                (IsUpper(text[i + 1]) /\ text[i + 1] \notin {"A", "I"} /\ StandaloneToken(i))

\* C5 as amended: a single upper-case letter other than A and I is matched
\* exactly where a space stands immediately before it and immediately after
\* it, so in "A B C" only "B" is matched; "A" and "I" never are.
SingleCharBetweenSpaces ==
    Analysed =>
        /\ \A i \in 0..(Len(text) - 1) :
               /\ (IsUpper(text[i + 1]) /\ text[i + 1] \notin {"A", "I"}) =>
                      (Matched(i) <=> /\ i >= 1 /\ text[i] = " "
                                      /\ i + 2 <= Len(text) /\ text[i + 2] = " ")
               /\ text[i + 1] \in {"A", "I"} => ~Matched(i)
               /\ ~IsCased(text[i + 1]) => ~Matched(i)
        /\ \A k \in 1..Len(results) : results[k].end = results[k].start + 1
        /\ text = <<"A"," ","B"," ","C">> =>
               results = <<Span("SINGLE_CHAR_EXCLUDE_AI", 2, 3, SingleCharConfidence)>>

\* "A B C" analysed: B is matched, C is not
SingleCharWitness ==
    /\ Analysed
    /\ text = <<"A"," ","B"," ","C">>
    /\ Matched(2)
    /\ ~Matched(4)

(***************************************************************************)
(* The deny-list recognizers on every text of a few tokens                 *)
(***************************************************************************)
MaxDenyTokens == 3

DenyTokens ==
    { <<"D","o","n","a","l","d">>, <<"D","o","n">>, <<"d","o","n">>, <<"D","O","N">>, <<"a","l","d">>, <<"_">>, <<" ">>, <<",">>,
      <<"n","e","w"," ","Y","o","r","k">>, <<"y","o","r","k">> }

DenyPerson == << <<"D","o","n">>, <<"A","l">> >>

DenyLocation == << <<"Y","o","r","k">>, NewYork >>

InitDeny ==
    /\ text \in Texts(DenyTokens, MaxDenyTokens)
    /\ registry = <<get_name_recognizer(DenyPerson), get_location_recognizer(DenyLocation)>>
    /\ DetectCommon

SpecDeny == InitDeny /\ [][Analyze]_vars
\* the deny-list of the registered recognizer that reports the label
DenyTerms(label) ==
    LET k == CHOOSE n \in 1..Len(registry) : registry[n].supported_entity = label
    IN  registry[k].deny_list

EqualIgnoringCase(a, b) ==
    Len(a) = Len(b) /\ \A k \in 1..Len(a) : ToLower(a[k]) = ToLower(b[k])

\* neither a letter, a digit nor an underscore stands at position p of the
\* text, or p is outside the text
NoWordCharAt(p) == p < 1 \/ p > Len(text) \/ ~IsWord(text[p])

MaxHandTokens == 3

HandTokens ==
    { <<"C","h","a","d">>, <<"b","o","b">>, <<"5">>, <<"B">>, <<" ">>, <<",">>, <<"Y","o","r","k">>, <<"N","e","w"," ","Y","o","r","k">> }

HandEmailDomains == << <<"g","m","a","i","l",".","c","o","m">>, <<"h","o","t","m","a","i","l",".","c","o","m">> >>

HandRegistries ==
    LET names == get_unique_names(<<SsaBob.Name, SsaChad.Name>> \o AdditionalNames,
                                  RunRemoveList)
        locations == generate_location_list(RunCountryNames, RunStateNames,
                                            RunCityNames, RunAirportNames)
    IN  {RegistrationOrder(
             [name_recognizer        |-> get_name_recognizer(names),
              location_recognizer    |-> get_location_recognizer(locations),
              datetime_recognizer    |-> get_datetime_recognizer(MonthList, WeekList, TimeList),
              number_recognizer      |-> get_number_recognizer(NumberConfidence),
              single_char_recognizer |-> get_single_char_recognizer,
              email_recognizer       |-> e]) : e \in get_email_recognizer(HandEmailDomains)}

InitHand ==
    /\ text \in Texts(HandTokens, MaxHandTokens)
    /\ registry \in HandRegistries
    /\ DetectCommon

NextHand == Analyze \/ Anonymize

SpecHand == InitHand /\ [][NextHand]_vars

MaxRows == 2

SsaRowPool == {SsaBob, SsaBobbyRare, SsaDon, SsaMissing, SsaText}

CsvRowPool == {CsvJose, CsvMaria, SsaText}

\* the file that follows the first one in a folder of two
SecondFiles == {File(<<SsaChad>>), File(<<SsaMissing, SsaChad>>), File(<<SsaText>>)}

Folders(rowPool) ==
    LET first == {File(rows) : rows \in SeqsUpTo(rowPool, MaxRows)}
    IN  {<<>>} \cup {<<f>> : f \in first}
               \cup {<<f, g>> : f \in first, g \in SecondFiles}

InitCorpus ==
    /\ pc = "process_txt"
    /\ zip_present = TRUE
    /\ zip_files \in Folders(SsaRowPool)
    /\ ssa_folder = zip_files
    /\ csv_present = TRUE
    /\ csv_files \in {<<>>} \cup {<<File(rows)>> : rows \in SeqsUpTo(CsvRowPool, MaxRows)}
    /\ error = "none"
    /\ NamesIdle
    /\ LocIdle
    /\ EmailIdle
    /\ DetectIdle
    /\ builds = <<>>

NextCorpus == ProcessNameTxtFiles \/ ProcessNameCsvFiles

SpecCorpus == InitCorpus /\ [][NextCorpus]_vars

\* the names of the rows of a folder whose frequency is a number above top_n
RECURSIVE NumericRowsAbove(_, _)
NumericRowsAbove(files, top_n) ==
    IF files = <<>> THEN <<>>
    ELSE LET rows == Head(files).rows
             keep == {i \in 1..Len(rows) :
                          rows[i].Number.type = "int" /\ rows[i].Number.val > top_n}
         IN  [k \in 1..Cardinality(keep) |->
                 rows[CHOOSE i \in keep :
                          Cardinality({j \in keep : j < i}) = k - 1].Name]
             \o NumericRowsAbove(Tail(files), top_n)

Transliterated(names) == [i \in 1..Len(names) |-> Unidecode(names[i])]

\* C11: the two functions append exactly the names of the rows whose
\* frequency is a number strictly greater than top_n (a row with the value
\* top_n is left out), and a row whose frequency is missing or is no number
\* is dropped without any error, the other rows and files still being
\* processed.
FrequencyRowsDroppedSilently ==
    /\ error = "none"
    /\ pc = "process_csv" => name_list = NumericRowsAbove(ssa_folder, TopN)
    /\ pc = "add_names" =>
           name_list = NumericRowsAbove(ssa_folder, TopN)
                       \o Transliterated(NumericRowsAbove(csv_files, TopN))

(***************************************************************************)
(* The registry of run() and the detection call of the main program        *)
(***************************************************************************)
RegistryLabels == [i \in 1..Len(registry) |-> registry[i].supported_entity]

SixLabels ==
    <<"PERSON", "NUMBER", "SINGLE_CHAR_EXCLUDE_AI", "DATE_TIME", "LOCATION",
      "EMAIL_DOMAIN">>

\* analyzer.analyze has been called
DetectionIssued == pc \in {"anonymize", "done"}

\* C12: the first analyzer.analyze call is made only when run() has
\* registered its six recognizers, one per label, in the order PERSON,
\* NUMBER, SINGLE_CHAR_EXCLUDE_AI, DATE_TIME, LOCATION, EMAIL_DOMAIN; from
\* that call on no recognizer is added to or removed from the registry.
BuildBeforeDetect ==
    [][ /\ DetectionIssued' => /\ RegistryLabels = SixLabels
                               /\ registry = RegistrationOrder(recognizers)
                               /\ registry' = registry
        /\ ~DetectionIssued' => results' = <<>> ]_vars

BuildBeforeDetectWitness ==
    /\ pc = "done"
    /\ RegistryLabels = SixLabels
    /\ results # <<>>
    /\ text = MainText

(***************************************************************************)
(* The NUMBER recognizer alone, on every text of a few characters          *)
(***************************************************************************)
MaxNumberTokens == 5

NumberTokens == { <<"1">>, <<"2">>, <<"a">>, <<"_">>, <<" ">> }

\* a confidence the caller passes instead of the default, in tenths
OtherConfidence == 8

InitNumber ==
    /\ text \in Texts(NumberTokens, MaxNumberTokens)
    /\ registry \in {<<get_number_recognizer(c)>> : c \in {NumberConfidence, OtherConfidence}}
    /\ DetectCommon

SpecNumber == InitNumber /\ [][Analyze]_vars

\* the characters at offsets s..e-1 are a run of digits no digit continues
DigitRun(s, e) ==
    /\ 0 <= s /\ s < e /\ e <= Len(text)
    /\ \A k \in (s + 1)..e : IsDigit(text[k])
    /\ s = 0 \/ ~IsDigit(text[s])
    /\ e = Len(text) \/ ~IsDigit(text[e + 1])

\* no letter, digit or underscore stands next to the characters s..e-1
Delimited(s, e) ==
    /\ s = 0 \/ ~IsWord(text[s])
    /\ e = Len(text) \/ ~IsWord(text[e + 1])

\* C13: the NUMBER recognizer reports a maximal run of digits exactly when
\* no letter, digit or underscore stands next to it, once and as a whole;
\* every result is such a run and carries the configured confidence, and no
\* two results overlap.
NumberMaximalRuns ==
    Analysed =>
        /\ \A s \in 0..Len(text) : \A e \in 0..Len(text) :
               DigitRun(s, e) =>
                   IF Delimited(s, e)
                   THEN Cardinality({k \in 1..Len(results) :
                            results[k].start = s /\ results[k].end = e}) = 1
                   ELSE \A i \in s..(e - 1) : ~Matched(i)
        /\ \A k \in 1..Len(results) :
               /\ DigitRun(results[k].start, results[k].end)
               /\ results[k].entity_type = "NUMBER"
               /\ results[k].score = registry[1].score
        /\ \A i, j \in 1..Len(results) :
               i # j => ~Overlap(results[i], results[j])

NumberRunsWitness ==
    /\ Analysed
    /\ text = <<"a","1"," ","2","1">>
    /\ registry = <<get_number_recognizer(NumberConfidence)>>
    /\ results = <<[entity_type |-> "NUMBER", start |-> 3, end |-> 5,
                    score |-> NumberConfidence]>>

(***************************************************************************)
(* The tokens of get_unique_names                                          *)
(***************************************************************************)
\* C14: every entry of the list get_unique_names returns is a non-empty,
\* title-cased token without any whitespace character, also when the names
\* hold several spaces in a row, a tab, or a space at either end.
UniqueNamesAreTokens ==
    pc = "names_done" =>
        \A i \in 1..Len(unique_names) :
            /\ unique_names[i] # <<>>
            /\ \A k \in 1..Len(unique_names[i]) : ~IsSpace(unique_names[i][k])
            /\ Title(unique_names[i]) = unique_names[i]

====
